---- MODULE Spec2Model ----
(***************************************************************************)
(* A model of src/server/ga.py: the genetic algorithm that plans an        *)
(* itinerary (run_genetic_algorithm and the functions it calls).           *)
(*                                                                         *)
(* Python lists are objects: the population, the mating pool and bestPath  *)
(* hold references.  The model keeps a heap (reference -> list value) so   *)
(* that an in-place change of a list is seen through every reference.      *)
(* Python indices are 0-based; a list is a TLA+ sequence and At(l, k) is    *)
(* the Python l[k].  Calls of the random module are nondeterministic        *)
(* choices over every value the call can return.  Floats are modelled as   *)
(* exact rationals <<numerator, denominator>> (denominator > 0), and       *)
(* float('inf') as the value Inf, which absorbs addition.                  *)
(***************************************************************************)
EXTENDS Integers, Sequences, FiniteSets

VARIABLES
    cfg,            \* the arguments of run_genetic_algorithm
    pc,             \* position in run_genetic_algorithm
    err,            \* the exception that ended the run ("" when none)
    i,              \* loop index of CreateInitialPopulation
    heap,           \* reference -> list value (the live list objects)
    nextId,         \* the next fresh reference
    population,     \* list of references
    generation,     \* loop index of the generational loop
    RankList,       \* list of <<index, fitness>>, sorted by fitness
    mutation_rate,  \* rational
    bestPath,       \* reference (EmptyRef is the initial [])
    bestFitness,
    matingPool,     \* list of references
    newPopulation,  \* list of references
    evaluated,      \* history: least fitness computed so far in this run
    call            \* arguments and result of a single function call

vars == <<cfg, pc, err, i, heap, nextId, population, generation, RankList,
          mutation_rate, bestPath, bestFitness, matingPool, newPopulation,
          evaluated, call>>

(***************************************************************************)
(* Bounds of the model.                                                    *)
(***************************************************************************)
MaxGenerations == 2       \* generations of the longest run
MaxPopSize == 4           \* initial_pop_size of the longest run
MaxLen == 4               \* longest parents of a single Crossover call
MaxRateNum == 3           \* mutation rates are n/d, n in 0..MaxRateNum,
MaxRateDen == 2           \*   d in 1..MaxRateDen
MaxRateGenerations == 4   \* generations when the mutation rate alone is run
MaxWeight == 9            \* largest edge weight

(***************************************************************************)
(* Python list and number helpers.                                         *)
(***************************************************************************)
Min(a, b) == IF a <= b THEN a ELSE b
Max(a, b) == IF a >= b THEN a ELSE b

Range(s) == {s[k] : k \in DOMAIN s}

\* l[k], k a 0-based index
At(l, k) == l[k + 1]

\* l[a:b] for 0 <= a
Slice(l, a, b) == SubSeq(l, a + 1, Min(b, Len(l)))

\* l[a:]
SliceFrom(l, a) == SubSeq(l, a + 1, Len(l))

\* l.count(x)
Count(l, x) == Cardinality({k \in DOMAIN l : l[k] = x})

\* l[::-1]
Reversed(l) == [k \in 1..Len(l) |-> l[Len(l) + 1 - k]]

\* the lists random.sample(list(S), k) can return: k distinct elements in any order
Samples(S, k) == {q \in [1..k -> S] : \A a, b \in 1..k : a # b => q[a] # q[b]}

\* float('inf'): larger than every finite path distance of the model
Inf == MaxWeight * 6 + 1
Plus(a, b) == IF a = Inf \/ b = Inf THEN Inf ELSE a + b

(***************************************************************************)
(* Rationals for the mutation rate: <<n, d>> with d > 0.                    *)
(***************************************************************************)
RSub(a, b) == <<a[1] * b[2] - b[1] * a[2], a[2] * b[2]>>
RMulInt(a, n) == <<a[1] * n, a[2]>>
RDivInt(a, n) == IF n > 0 THEN <<a[1], a[2] * n>> ELSE <<-a[1], a[2] * (-n)>>
RLess(a, b) == a[1] * b[2] < b[1] * a[2]
REq(a, b) == a[1] * b[2] = b[1] * a[2]
RLeq(a, b) == a[1] * b[2] <= b[1] * a[2]
\* max(a, b): Python returns the first argument unless the second is larger
RMax(a, b) == IF RLess(a, b) THEN b ELSE a

(***************************************************************************)
(* calculate_path_distance                                                 *)
(***************************************************************************)
\* graph[path[k]] raises KeyError for some k
DistanceRaises(graph, path) ==
    \E k \in 0..(Len(path) - 2) : At(path, k) \notin DOMAIN graph

\* graph[a].get(b, float('inf'))
EdgeGet(graph, a, b) == IF b \in DOMAIN graph[a] THEN graph[a][b] ELSE Inf

RECURSIVE SumEdges(_, _, _)
SumEdges(graph, path, k) ==
    IF k >= Len(path) - 1 THEN 0
    ELSE Plus(EdgeGet(graph, At(path, k), At(path, k + 1)), SumEdges(graph, path, k + 1))

calculate_path_distance(graph, path) == SumEdges(graph, path, 0)

(***************************************************************************)
(* Crossover.  list(set).pop() takes an element in the set's iteration     *)
(* order, which the program does not fix: Crossover is the set of the      *)
(* children the call can return.                                           *)
(***************************************************************************)
RECURSIVE Repair(_, _, _, _)
Repair(child, k, missing, anchors) ==
    IF k >= Len(child) - 1 THEN {child}
    ELSE IF At(child, k) \in anchors \/ Count(child, At(child, k)) > 1
         THEN UNION {LET c2 == [child EXCEPT ![k + 1] = m]
                     IN  IF missing \ {m} = {} THEN {c2}
                         ELSE Repair(c2, k + 1, missing \ {m}, anchors)
                     : m \in missing}
         ELSE Repair(child, k + 1, missing, anchors)

\* Crossover with the remainder taken as all of Parent2 (the filter of line 170 lost)
Crossover_NoFilter(Parent1, Parent2, Start_Index, End_Index, all_start_end_points) ==
    LET s == Max(Start_Index, 1)
        e == Min(End_Index, Len(Parent1) - 2)
        p1_section == Slice(Parent1, s, e + 1)
        remainder == Parent2
        child == Slice(remainder, 0, s) \o p1_section \o SliceFrom(remainder, s)
        all_attractions == Range(Parent1) \ all_start_end_points
        missing_attractions == all_attractions \ Range(child)
    IN  IF missing_attractions # {} THEN Repair(child, 1, missing_attractions, all_start_end_points)
        ELSE {child}

Crossover(Parent1, Parent2, Start_Index, End_Index, all_start_end_points) ==
    LET s == Max(Start_Index, 1)
        e == Min(End_Index, Len(Parent1) - 2)
        p1_section == Slice(Parent1, s, e + 1)
        remainder == SelectSeq(Parent2, LAMBDA a : a \notin Range(p1_section))
        child == Slice(remainder, 0, s) \o p1_section \o SliceFrom(remainder, s)
        all_attractions == Range(Parent1) \ all_start_end_points
        missing_attractions == all_attractions \ Range(child)
    IN  IF missing_attractions # {} THEN Repair(child, 1, missing_attractions, all_start_end_points)
        ELSE {child}

(***************************************************************************)
(* Mutate: the values the list Child can hold after the call (the change   *)
(* is made in place).                                                      *)
(***************************************************************************)
ReverseSegment(Child, s, e) ==
    Slice(Child, 0, s) \o Reversed(Slice(Child, s, e + 1)) \o SliceFrom(Child, e + 1)

MutateReverse(Child) ==
    IF Len(Child) > 3
    THEN UNION {{ReverseSegment(Child, s, e) : e \in s..(Len(Child) - 2)} :
                  s \in 1..(Len(Child) - 3)}
    ELSE {Child}

MutateReplace(Child, graph, all_start_end_points) ==
    LET possible_replacements == ((DOMAIN graph) \ Range(Child)) \ all_start_end_points
    IN  IF Len(Child) > 2 /\ possible_replacements # {}
        THEN {[Child EXCEPT ![k + 1] = r] :
                k \in 1..(Len(Child) - 2), r \in possible_replacements}
        ELSE {Child}

Mutate(Child, graph, all_start_end_points) ==
    MutateReverse(Child) \cup MutateReplace(Child, graph, all_start_end_points)

(***************************************************************************)
(* The mutation rate of a generation (lines 48, 55, 56).                   *)
(***************************************************************************)
decay_rate(c) == RDivInt(RSub(c.imr, c.mmr), c.generations)

\* the rate without the floor of line 56
MutationRate_NoClamp(c, g) == RSub(c.imr, RMulInt(decay_rate(c), g))

MutationRate(c, g) == RMax(RSub(c.imr, RMulInt(decay_rate(c), g)), c.mmr)

\* random.random() < rate can be true / can be false, random() being in [0, 1)
MayMutate(rate) == RLess(<<0, 1>>, rate)
MaySkipMutate(rate) == RLess(rate, <<1, 1>>)

(***************************************************************************)
(* The ranking of a generation (lines 52, 53): list.sort is stable.        *)
(***************************************************************************)
RECURSIVE InsertRanked(_, _)
InsertRanked(sorted, item) ==
    IF sorted = <<>> THEN <<item>>
    ELSE IF sorted[Len(sorted)][2] <= item[2] THEN Append(sorted, item)
    ELSE Append(InsertRanked(SubSeq(sorted, 1, Len(sorted) - 1), item), sorted[Len(sorted)])

RECURSIVE SortRanked(_, _)
SortRanked(items, n) ==
    IF n = 0 THEN <<>> ELSE InsertRanked(SortRanked(items, n - 1), items[n])

Ranked(graph, h, pop) ==
    SortRanked([k \in 1..Len(pop) |-> <<k - 1, calculate_path_distance(graph, h[pop[k]])>>],
               Len(pop))

\* min(tournament, key=fitness): the first entry of least fitness
TournamentWinner(tournament) ==
    LET best == CHOOSE k \in 1..Len(tournament) :
                   /\ \A j \in 1..Len(tournament) : tournament[k][2] <= tournament[j][2]
                   /\ \A j \in 1..(k - 1) : tournament[j][2] > tournament[k][2]
    IN  tournament[best]

(***************************************************************************)
(* The inputs of the model: graphs and argument lists.                     *)
(***************************************************************************)
AllNodes == {"A", "B", "C", "D", "E", "F"}

\* the edge weights of the graph "g6"
Weight6(a, b) ==
    CASE <<a, b>> = <<"A", "B">> -> 1
      [] <<a, b>> = <<"A", "E">> -> 3
      [] <<a, b>> = <<"A", "F">> -> 4
      [] <<a, b>> = <<"B", "D">> -> 6
      [] <<a, b>> = <<"C", "D">> -> 1
      [] <<a, b>> = <<"E", "D">> -> 3
      [] <<a, b>> = <<"F", "D">> -> 4
      [] <<a, b>> = <<"B", "E">> -> 1
      [] <<a, b>> = <<"A", "D">> -> MaxWeight
      [] OTHER -> 2

\* 4 nodes, fully connected, every weight 1
Unit4 == [a \in {"A", "B", "C", "D"} |-> [b \in {"A", "B", "C", "D"} \ {a} |-> 1]]

\* 6 nodes, fully connected but for the edge A -> C
G6 ==
    [a \in AllNodes |->
       [b \in (AllNodes \ {a}) \ (IF a = "A" THEN {"C"} ELSE {}) |-> Weight6(a, b)]]

\* G6 without the node F
G5 == [a \in AllNodes \ {"F"} |-> [b \in (DOMAIN G6[a]) \ {"F"} |-> G6[a][b]]]

\* G6 with an empty neighbour map for A
Isolated == [a \in AllNodes |-> IF a = "A" THEN [b \in {} |-> 0] ELSE G6[a]]

GraphOf(name) ==
    CASE name = "unit4" -> Unit4
      [] name = "g6" -> G6
      [] name = "g5" -> G5
      [] name = "isolated" -> Isolated

\* the default of CreateMatingPool's parameter
tournament_size == 3

\* a small run: 3 paths, one generation, the rate 1/2 at generation 0
Small ==
    [graph |-> "g6", size |-> tournament_size, start |-> "A", end |-> "D", fps |-> 3,
     generations |-> 1, imr |-> <<1, 2>>, mmr |-> <<0, 1>>, anchors |-> {"A", "D"}]

Scenarios ==
    \* the longest run: MaxPopSize paths, MaxGenerations generations, no mutation
    {[Small EXCEPT !.size = MaxPopSize, !.generations = MaxGenerations, !.imr = <<0, 1>>]}
    \* mutation always (generation 0), then with rate 1/2
    \cup {[Small EXCEPT !.generations = 2, !.imr = <<1, 1>>]}
    \cup {[Small EXCEPT !.size = MaxPopSize]}
    \cup {[Small EXCEPT !.generations = g] : g \in {-1, 0, 1}}
    \cup {[Small EXCEPT !.size = n] : n \in 0..(tournament_size - 1)}
    \cup {[Small EXCEPT !.fps = n] : n \in {1, 2}}
    \cup {[Small EXCEPT !.graph = "g5", !.fps = 4],
          [Small EXCEPT !.start = "Z"],
          [Small EXCEPT !.end = "Z"],
          [Small EXCEPT !.graph = "isolated"],
          \* the scenario of the specification: 4 nodes, unit weights, path length 4
          [Small EXCEPT !.graph = "unit4", !.fps = 4, !.size = MaxPopSize]}

Graph == GraphOf(cfg.graph)

(***************************************************************************)
(* The heap.                                                               *)
(***************************************************************************)
EmptyRef == 0

Store(h, ref, value) == [r \in (DOMAIN h) \cup {ref} |-> IF r = ref THEN value ELSE h[r]]

\* the objects still referenced once the locals of a generation are dropped
Collect(h, live) == [r \in (DOMAIN h) \cap (live \cup {EmptyRef}) |-> h[r]]

\* the child built in the list object of the first parent
ChildRef_Alias(parentRef, fresh) == parentRef

\* the list object that "remainder[:s] + p1_section + remainder[s:]" builds:
\* list concatenation makes a new list
ChildRef(parentRef, fresh) == fresh

Values(h, refs) == [k \in 1..Len(refs) |-> h[refs[k]]]

Init ==
    /\ cfg \in Scenarios
    /\ pc = "start"
    /\ err = ""
    /\ i = 0
    /\ heap = [r \in {EmptyRef} |-> <<>>]
    /\ nextId = 1
    /\ population = <<>>
    /\ generation = 0
    /\ RankList = <<>>
    /\ mutation_rate = <<0, 1>>
    /\ bestPath = EmptyRef
    /\ bestFitness = Inf
    /\ matingPool = <<>>
    /\ newPopulation = <<>>
    /\ evaluated = Inf
    /\ call = <<>>

Raise(name) ==
    /\ pc' = "error"
    /\ err' = name

\* lines 46-48: decay_rate divides by generations
Start ==
    /\ pc = "start"
    /\ IF cfg.generations = 0
       THEN Raise("ZeroDivisionError")
       ELSE /\ pc' = (IF cfg.size > 0 THEN "init" ELSE "loop")
            /\ err' = err
    /\ UNCHANGED <<cfg, i, heap, nextId, population, generation, RankList, mutation_rate,
                   bestPath, bestFitness, matingPool, newPopulation, evaluated, call>>

\* CreateInitialPopulation, one iteration of its loop (lines 257-266)
InitStep ==
    /\ pc = "init"
    /\ LET attractions == (DOMAIN Graph) \ cfg.anchors
           remaining_attractions == attractions \ {cfg.start, cfg.end}
           k == Min(Cardinality(remaining_attractions), cfg.fps - 2)
       IN  IF k < 0
           THEN /\ Raise("ValueError")
                /\ UNCHANGED <<i, heap, nextId, population>>
           ELSE \E q \in Samples(remaining_attractions, k) :
                  LET path == <<cfg.start>> \o q \o <<cfg.end>>
                  IN  /\ IF path \in Range(Values(heap, population))
                         THEN UNCHANGED <<heap, nextId, population>>
                         ELSE /\ heap' = Store(heap, nextId, path)
                              /\ nextId' = nextId + 1
                              /\ population' = Append(population, nextId)
                      /\ i' = i + 1
                      /\ pc' = (IF i + 1 < cfg.size THEN "init" ELSE "loop")
                      /\ err' = err
    /\ UNCHANGED <<cfg, generation, RankList, mutation_rate, bestPath, bestFitness,
                   matingPool, newPopulation, evaluated, call>>

MinOf(S) == CHOOSE x \in S : \A y \in S : x <= y

\* the record replaced by every generation's best
Improves_Always(currentBestFitness, best) == TRUE

\* line 60: the record is replaced only by a strictly smaller fitness
Improves(currentBestFitness, best) == currentBestFitness < best

\* lines 51-64: the ranking, the mutation rate and the best-so-far record
Evaluate ==
    /\ pc = "loop"
    /\ generation < cfg.generations
    /\ IF \E k \in 1..Len(population) : DistanceRaises(Graph, heap[population[k]])
       THEN /\ Raise("KeyError")
            /\ UNCHANGED <<RankList, mutation_rate, bestPath, bestFitness, evaluated>>
       ELSE IF population = <<>>
       THEN /\ Raise("IndexError")
            /\ UNCHANGED <<RankList, mutation_rate, bestPath, bestFitness, evaluated>>
       ELSE LET ranked == Ranked(Graph, heap, population)
                currentBestFitness == ranked[1][2]
            IN  /\ RankList' = ranked
                /\ mutation_rate' = MutationRate(cfg, generation)
                /\ IF Improves(currentBestFitness, bestFitness)
                   THEN /\ bestFitness' = currentBestFitness
                        /\ bestPath' = At(population, ranked[1][1])
                   ELSE UNCHANGED <<bestFitness, bestPath>>
                /\ evaluated' = MinOf({evaluated} \cup {ranked[k][2] : k \in 1..Len(ranked)})
                /\ pc' = "pool"
                /\ err' = err
    /\ UNCHANGED <<cfg, i, heap, nextId, population, generation, matingPool,
                   newPopulation, call>>

\* the population indices that one tournament can select: the winner of every
\* list random.sample(RankList, tournament_size) can return
TournamentWinners(ranks) ==
    {TournamentWinner([k \in 1..tournament_size |-> ranks[t[k]]])[1] :
       t \in Samples(1..Len(ranks), tournament_size)}

\* CreateMatingPool, one tournament (lines 226-232)
Tournament ==
    /\ pc = "pool"
    /\ IF Len(RankList) < tournament_size
       THEN /\ Raise("ValueError")
            /\ UNCHANGED matingPool
       ELSE \E winner \in TournamentWinners(RankList) :
              /\ matingPool' = Append(matingPool, At(population, winner))
              /\ pc' = (IF Len(matingPool) + 1 < Len(population) THEN "pool" ELSE "breed")
              /\ err' = err
    /\ UNCHANGED <<cfg, i, heap, nextId, population, generation, RankList, mutation_rate,
                   bestPath, bestFitness, newPopulation, evaluated, call>>

\* random.randint(1, len(Parent1) - 2) raises ValueError on an empty range
NoWindow == <<-1, <<>>>>

\* The outcomes of one iteration of lines 71-87, for every choice of the two
\* parents (references p1, p2 held by the mating pool), of the window and of
\* the mutation: <<reference of the child, value
\* of the child when it is appended>>, or NoWindow.  Mutate changes the list
\* that Crossover returned, in place.
BreedOutcomes ==
    UNION {LET Parent1 == heap[p1]
               Parent2 == heap[p2]
               ref == ChildRef(p1, nextId)
           IN  IF Len(Parent1) - 2 < 1 THEN {NoWindow}
               ELSE UNION {UNION {
                      {<<ref, child>> : child \in
                          {c \in Crossover(Parent1, Parent2, start_index, end_index, cfg.anchors) :
                             MaySkipMutate(mutation_rate)}}
                      \cup
                      UNION {{<<ref, mutated>> : mutated \in Mutate(child, Graph, cfg.anchors)} :
                             child \in
                          {c \in Crossover(Parent1, Parent2, start_index, end_index, cfg.anchors) :
                             MayMutate(mutation_rate)}}
                      : end_index \in start_index..(Len(Parent1) - 2)}
                      : start_index \in 1..(Len(Parent1) - 2)}
           : p1 \in Range(matingPool), p2 \in Range(matingPool)}

\* lines 71-87, one iteration: two parents, a window, Crossover, maybe Mutate
Breed ==
    /\ pc = "breed"
    /\ \E outcome \in BreedOutcomes :
         IF outcome = NoWindow
         THEN /\ Raise("ValueError")
              /\ UNCHANGED <<heap, nextId, newPopulation>>
         ELSE /\ heap' = Store(heap, outcome[1], outcome[2])
              /\ nextId' = (IF outcome[1] = nextId THEN nextId + 1 ELSE nextId)
              /\ newPopulation' = Append(newPopulation, outcome[1])
              /\ pc' = (IF Len(newPopulation) + 1 < Len(population) \div 2
                        THEN "breed" ELSE "replace")
              /\ err' = err
    /\ UNCHANGED <<cfg, i, population, generation, RankList, mutation_rate, bestPath,
                   bestFitness, matingPool, evaluated, call>>

\* lines 89-91: the first size//2 members of the population follow the children.
\* matingPool and newPopulation are assigned anew before they are read again, so
\* they are emptied here; a list that nothing refers to any more is freed.
Replace ==
    /\ pc = "replace"
    /\ LET size == Len(population)
           next == newPopulation \o Slice(population, 0, size \div 2)
       IN  /\ population' = next
           /\ heap' = Collect(heap, Range(next) \cup {bestPath})
    /\ generation' = generation + 1
    /\ matingPool' = <<>>
    /\ newPopulation' = <<>>
    /\ pc' = "loop"
    /\ UNCHANGED <<cfg, err, i, nextId, RankList, mutation_rate, bestPath, bestFitness,
                   evaluated, call>>

\* line 92
Return ==
    /\ pc = "loop"
    /\ ~(generation < cfg.generations)
    /\ pc' = "done"
    /\ UNCHANGED <<cfg, err, i, heap, nextId, population, generation, RankList,
                   mutation_rate, bestPath, bestFitness, matingPool, newPopulation,
                   evaluated, call>>

Next ==
    \/ Start
    \/ InitStep
    \/ Evaluate
    \/ Tournament
    \/ Breed
    \/ Replace
    \/ Return

Spec == Init /\ [][Next]_vars

(***************************************************************************)
(* Crossover alone: one call on two valid parents of equal length.         *)
(***************************************************************************)
\* the valid candidate paths of length n from first to last
ValidPaths(first, last, n, anchors) ==
    {<<first>> \o q \o <<last>> : q \in Samples((AllNodes \ anchors) \ {first, last}, n - 2)}

InitCrossover ==
    /\ cfg = Small
    /\ pc = "call"
    /\ err = ""
    /\ i = 0
    /\ heap = [r \in {EmptyRef} |-> <<>>]
    /\ nextId = 1
    /\ population = <<>>
    /\ generation = 0
    /\ RankList = <<>>
    /\ mutation_rate = <<0, 1>>
    /\ bestPath = EmptyRef
    /\ bestFitness = Inf
    /\ matingPool = <<>>
    /\ newPopulation = <<>>
    /\ evaluated = Inf
    /\ \E anchors \in {{"A", "D"}, {"A", "D", "F"}} :
       \E last \in {"A", "D"} :
       \E n \in 3..MaxLen :
       \E p1, p2 \in ValidPaths("A", last, n, anchors) :
       \E s \in 1..(n - 2) :
       \E e \in s..(n - 2) :
         call = [Parent1 |-> p1, Parent2 |-> p2, Start_Index |-> s, End_Index |-> e,
                 anchors |-> anchors, result |-> <<>>]

CrossoverCall ==
    /\ pc = "call"
    /\ \E child \in Crossover(call.Parent1, call.Parent2, call.Start_Index,
                              call.End_Index, call.anchors) :
         call' = [call EXCEPT !.result = child]
    /\ pc' = "returned"
    /\ UNCHANGED <<cfg, err, i, heap, nextId, population, generation, RankList,
                   mutation_rate, bestPath, bestFitness, matingPool, newPopulation,
                   evaluated>>

CrossoverSpec == InitCrossover /\ [][CrossoverCall]_vars

(***************************************************************************)
(* The mutation rate alone: lines 48, 55 and 56 over the generations.      *)
(***************************************************************************)
Rates == {<<n, d>> : n \in 0..MaxRateNum, d \in 1..MaxRateDen}

InitRate ==
    /\ \E r1, r2 \in Rates : \E g \in 1..MaxRateGenerations :
         cfg = [Small EXCEPT !.imr = r1, !.mmr = r2, !.generations = g]
    /\ pc = "rate"
    /\ err = ""
    /\ i = 0
    /\ heap = [r \in {EmptyRef} |-> <<>>]
    /\ nextId = 1
    /\ population = <<>>
    /\ generation = 0
    /\ RankList = <<>>
    /\ mutation_rate = <<0, 1>>
    /\ bestPath = EmptyRef
    /\ bestFitness = Inf
    /\ matingPool = <<>>
    /\ newPopulation = <<>>
    /\ evaluated = Inf
    /\ call = [g |-> -1, previous |-> <<0, 1>>]

\* one pass of the loop, the rate only; call keeps the generation whose rate
\* mutation_rate holds and the rate of the generation before
RateStep ==
    /\ pc = "rate"
    /\ generation < cfg.generations
    /\ mutation_rate' = MutationRate(cfg, generation)
    /\ call' = [g |-> generation, previous |-> mutation_rate]
    /\ generation' = generation + 1
    /\ UNCHANGED <<cfg, pc, err, i, heap, nextId, population, RankList, bestPath,
                   bestFitness, matingPool, newPopulation, evaluated>>

RateSpec == InitRate /\ [][RateStep]_vars

(***************************************************************************)
(* Properties.                                                             *)
(***************************************************************************)
Running == pc \in {"loop", "pool", "breed", "replace", "done"}

PopulationValues == Values(heap, population)

Fitness(ref) == calculate_path_distance(Graph, heap[ref])

MinFitness(h, pop) == MinOf({calculate_path_distance(Graph, h[pop[k]]) : k \in 1..Len(pop)})

\* the interior nodes available to a path
Universe == ((DOMAIN Graph) \ cfg.anchors) \ {cfg.start, cfg.end}

\* well-formed arguments: start and end are nodes, the anchors are nodes,
\* final_path_size >= 2, generations >= 1, population_size >= tournament_size
WellFormed(c) ==
    /\ c.start \in DOMAIN GraphOf(c.graph)
    /\ c.end \in DOMAIN GraphOf(c.graph)
    /\ c.anchors \subseteq DOMAIN GraphOf(c.graph)
    /\ c.fps >= 2
    /\ c.generations >= 1
    /\ c.size >= tournament_size

\* C1: in every generation every path of the population has the length
\* final_path_size, when the graph has at least final_path_size - 2 interior nodes
C1_FixedLength ==
    (Running /\ WellFormed(cfg) /\ Cardinality(Universe) >= cfg.fps - 2)
        => \A k \in 1..Len(population) : Len(PopulationValues[k]) = cfg.fps

\* C2: after the replacement step the population has as many paths as at the
\* start of the generation (RankList still holds that generation's ranking)
C2_SizeFixed ==
    (pc = "loop" /\ generation >= 1 /\ WellFormed(cfg)) => Len(population) = Len(RankList)

\* C3: the replacement step carries over the size//2 top-ranked members of the
\* generation, after the children, and the least fitness of the population
\* does not increase
C3_Elitism ==
    [][(pc = "replace" /\ WellFormed(cfg)) =>
         /\ population' = newPopulation \o
                [k \in 1..(Len(population) \div 2) |-> At(population, RankList[k][1])]
         /\ MinFitness(heap', population') <= MinFitness(heap, population)]_vars

\* C4: under well-formed arguments no step raises, and the run on the 4 nodes
\* with unit weights returns the fitness 3
C4_NoError ==
    WellFormed(cfg) =>
        /\ pc # "error"
        /\ (pc = "done" /\ cfg.graph = "unit4") => bestFitness = 3

\* the invalid configurations of the specification
InvalidConfiguration(c) ==
    \/ c.generations <= 0
    \/ c.size < 2
    \/ c.fps < 2
    \/ tournament_size > c.size
    \/ c.start \notin DOMAIN GraphOf(c.graph)
    \/ c.end \notin DOMAIN GraphOf(c.graph)

\* C5: a run with an invalid configuration never returns a result
C5_InvalidFails == InvalidConfiguration(cfg) => pc # "done"

\* C6: the child of two valid parents of equal length keeps the anchors at its
\* two ends, holds no anchor inside and no non-anchor node twice
C6_CrossoverInvariant ==
    pc = "returned" =>
        LET c == call.result
        IN  /\ c[1] = call.Parent1[1]
            /\ c[Len(c)] = call.Parent1[Len(call.Parent1)]
            /\ \A k \in 2..(Len(c) - 1) : c[k] \notin call.anchors
            /\ \A n \in AllNodes \ call.anchors : Count(c, n) <= 1

\* C6 witness: parents with different interior nodes, the window not at the end
C6_Witness ==
    /\ pc = "returned"
    /\ Range(call.Parent1) # Range(call.Parent2)
    /\ Len(call.Parent1) = MaxLen
    /\ call.Start_Index < call.End_Index
    /\ "F" \in call.anchors

\* the candidate-path invariant
ValidCandidate(path) ==
    /\ Len(path) >= 2
    /\ path[1] = cfg.start
    /\ path[Len(path)] = cfg.end
    /\ \A k \in 2..(Len(path) - 1) :
         /\ path[k] \in DOMAIN Graph
         /\ path[k] \notin cfg.anchors \cup {cfg.start, cfg.end}
         /\ Count(path, path[k]) <= 1

\* C7: in every generation every path of the population is a valid candidate
C7_PathInvariant ==
    (Running /\ WellFormed(cfg)) => \A k \in 1..Len(population) : ValidCandidate(PopulationValues[k])

\* C8: the rate of every generation is at least the minimum, is not above the
\* rate of the generation before, and at generation 0 is the initial rate
\* when that is at least the minimum
C8_MutationRate ==
    (pc = "rate" /\ call.g >= 0) =>
        /\ RLeq(cfg.mmr, mutation_rate)
        /\ call.g >= 1 => RLeq(mutation_rate, call.previous)
        /\ (call.g = 0 /\ RLeq(cfg.mmr, cfg.imr)) => REq(mutation_rate, cfg.imr)
        /\ RLeq(cfg.mmr, cfg.imr) => RLeq(mutation_rate, cfg.imr)

\* C8 witness: a rate strictly between the minimum and the initial rate, after
\* the first generation
C8_Witness ==
    /\ pc = "rate"
    /\ call.g >= 2
    /\ RLess(cfg.mmr, mutation_rate)
    /\ RLess(mutation_rate, call.previous)

\* C9: the best-so-far fitness never increases, changes only to a strictly
\* smaller top-ranked fitness, and is the least fitness evaluated so far
C9_BestFitness ==
    [][/\ bestFitness' <= bestFitness
       /\ bestFitness' = evaluated'
       /\ (bestFitness' # bestFitness \/ bestPath' # bestPath) =>
            /\ pc = "loop"
            /\ RankList'[1][2] < bestFitness
            /\ bestFitness' = RankList'[1][2]
            /\ bestPath' = At(population, RankList'[1][1])]_vars

\* C9 witness: the record improved in a later generation (the best path is a
\* child bred in the generation before) while a ranked path has fitness +inf
C9_Witness ==
    /\ pc = "pool"
    /\ generation >= 1
    /\ bestFitness < Inf
    /\ \E k \in 1..(Len(population) \div 2) : population[k] = bestPath
    /\ \E k \in 1..Len(RankList) : RankList[k][2] = Inf

====
